---- MODULE Spec2Model ----
(***************************************************************************)
(* Authentication backend of secure-chat-app: the users and user_sessions  *)
(* tables (database/init.sql), the UserModel data-access class and the     *)
(* token/session workflows that are built from its statements.             *)
(*                                                                         *)
(* Every SQL statement is one atomic step of the store.  A request handler *)
(* (a member of Procs) runs one operation at a time; an operation that     *)
(* awaits more than once is split at its awaits, so handlers interleave    *)
(* between statements exactly as concurrent requests do.                   *)
(*                                                                         *)
(* Time is counted in hours.  Random identifiers (uuidv4) are modelled as  *)
(* the next unused positive integer.                                       *)
(***************************************************************************)
EXTENDS Integers, FiniteSets, Sequences, TLC

VARIABLES
    users,      \* rows of TABLE users
    sessions,   \* rows of TABLE user_sessions
    now,        \* the clock read by NOW() and new Date(), in hours
    ticks,      \* how often the clock has advanced
    uuids,      \* how many random identifiers have been generated
    nextSid,    \* how many session rows have been inserted
    pc,         \* per handler: the statement it is about to run
    loc,        \* per handler: arguments and locals of the running operation
    ret,        \* per handler: what its last finished operation returned
    hist,       \* history of the run, read only by the properties
    redisClient,\* the module variable of config/database.ts: NULL or a client
    clients     \* the Redis clients created so far: the connection state of each

vars == <<users, sessions, now, ticks, uuids, nextSid, pc, loc, ret, hist,
          redisClient, clients>>

----------------------------------------------------------------------------
(* Bounds of the model *)

MaxUsers == 4
MaxUuids == 2
MaxTicks == 1

(* Program constants *)

SessionDays == 7
RefreshTokenDays == 7
ResetTokenHours == 1
NULL == 0

Procs == {"p1", "p2"}
\* inputs of register: one address and one name of a sample row, two new ones
Emails == {"test@example.com", "a@x.com", "b@x.com"}
Usernames == {"testuser", "alice", "bob"}
\* the password the sample rows' digest was made from, and the one clients choose
SamplePassword == "sample"
NewPassword == "Secret123!"
Passwords == {SamplePassword, NewPassword}
\* addresses a reset request names: a sample row's and an unknown one
ResetEmails == {"test@example.com", "nobody@x.com"}
\* addresses a login names: both sample rows'
LoginEmails == {"test@example.com", "demo@example.com"}

----------------------------------------------------------------------------
(* Capabilities the code calls *)

\* bcrypt.hash: the digest determines the plaintext it was made from
Hash(pw) == <<"bcrypt", pw>>

\* bcrypt.compare
validatePassword(plainPassword, hashedPassword) == hashedPassword = Hash(plainPassword)

\* a mutant of uuidv4: the generator repeats its first value
uuidv4Repeats(n) == 1

\* uuidv4(): a value no earlier call returned; n calls have been made
uuidv4(n) == n + 1

----------------------------------------------------------------------------
(* Rows *)

UserRow(id, email, username, hash, vtoken, verified) ==
    [id |-> id, email |-> email, username |-> username, password_hash |-> hash,
     is_verified |-> verified, verification_token |-> vtoken,
     reset_token |-> NULL, reset_token_expires |-> NULL]

\* the two sample rows init.sql inserts
SeedUsers ==
    {UserRow(1, "test@example.com", "testuser", Hash(SamplePassword), NULL, TRUE),
     UserRow(2, "demo@example.com", "demo", Hash(SamplePassword), NULL, TRUE)}

\* a property read in JavaScript: undefined (here NULL) when the row has no such column
Field(row, name) == IF name \in DOMAIN row THEN row[name] ELSE NULL

----------------------------------------------------------------------------
(* Statements on TABLE users *)

\* a mutant of UniqueViolation: username is not declared UNIQUE
UniqueViolationEmailOnly(us, email, username) ==
    \E u \in us : u.email = email

\* email VARCHAR(255) UNIQUE, username VARCHAR(50) UNIQUE
UniqueViolation(us, email, username) ==
    \E u \in us : u.email = email \/ u.username = username

\* INSERT INTO users (...) VALUES (...): the row create() inserts; is_verified is false
InsertUser(us, email, username, hash, vtoken) ==
    us \cup {UserRow(Cardinality(us) + 1, email, username, hash, vtoken, FALSE)}

\* RETURNING id, email, username, display_name, status, is_verified, created_at, updated_at
Returning(row) ==
    [id |-> row.id, email |-> row.email, username |-> row.username,
     is_verified |-> row.is_verified]

\* SELECT * FROM users WHERE email = $1
findByEmail(us, email) == {u \in us : u.email = email}

\* SELECT * FROM users WHERE verification_token = $1
findByVerificationToken(us, token) ==
    {u \in us : u.verification_token # NULL /\ u.verification_token = token}

\* a mutant of findByResetToken: the expiry is not compared
findByResetTokenAnyAge(us, token, t) ==
    {u \in us : u.reset_token # NULL /\ u.reset_token = token}

\* SELECT * FROM users WHERE reset_token = $1 AND reset_token_expires > NOW()
findByResetToken(us, token, t) ==
    {u \in us : /\ u.reset_token # NULL
                /\ u.reset_token = token
                /\ u.reset_token_expires # NULL
                /\ u.reset_token_expires > t}

\* a mutant of verifyEmail: SET is_verified = true, the token is kept
verifyEmailKeepsToken(us, token) ==
    {IF u \in findByVerificationToken(us, token)
        THEN [u EXCEPT !.is_verified = TRUE]
        ELSE u : u \in us}

\* UPDATE users SET is_verified = true, verification_token = NULL WHERE verification_token = $1
verifyEmail(us, token) ==
    {IF u \in findByVerificationToken(us, token)
        THEN [u EXCEPT !.is_verified = TRUE, !.verification_token = NULL]
        ELSE u : u \in us}

\* UPDATE users SET password_hash = $1 WHERE id = $2
updatePassword(us, userId, hash) ==
    {IF u.id = userId THEN [u EXCEPT !.password_hash = hash] ELSE u : u \in us}

\* UPDATE users SET reset_token = $1, reset_token_expires = $2 WHERE email = $3
setResetToken(us, email, token, expiresAt) ==
    {IF u.email = email
        THEN [u EXCEPT !.reset_token = token, !.reset_token_expires = expiresAt]
        ELSE u : u \in us}

\* a mutant of clearResetToken: only the expiry is cleared
clearResetTokenExpiryOnly(us, userId) ==
    {IF u.id = userId THEN [u EXCEPT !.reset_token_expires = NULL] ELSE u : u \in us}

\* UPDATE users SET reset_token = NULL, reset_token_expires = NULL WHERE id = $1
clearResetToken(us, userId) ==
    {IF u.id = userId
        THEN [u EXCEPT !.reset_token = NULL, !.reset_token_expires = NULL]
        ELSE u : u \in us}

----------------------------------------------------------------------------
(* Refresh tokens and statements on TABLE user_sessions *)

\* a mutant of generateRefreshToken: the payload carries no random tokenId
generateRefreshTokenNoId(tokenId, t) ==
    [tokenId |-> NULL, exp |-> t + RefreshTokenDays * 24]

\* jwt.sign({ tokenId: uuidv4() }, secret, { expiresIn: '7d' }) at time t
generateRefreshToken(tokenId, t) ==
    [tokenId |-> tokenId, exp |-> t + RefreshTokenDays * 24]

\* jwt.verify: the signature is the issuer's and the exp claim is not reached
verifyRefreshToken(token, t) == t < token.exp

\* expiresAt.setDate(expiresAt.getDate() + 7); INSERT INTO user_sessions (...)
createSession(ss, id, userId, refreshToken, t) ==
    ss \cup {[id |-> id, user_id |-> userId, refresh_token |-> refreshToken,
              expires_at |-> t + SessionDays * 24, created_at |-> t]}

\* a mutant of findSessionByRefreshToken: expires_at >= NOW()
findSessionByRefreshTokenInclusive(ss, refreshToken, t) ==
    {s \in ss : s.refresh_token = refreshToken /\ s.expires_at >= t}

\* SELECT * FROM user_sessions WHERE refresh_token = $1 AND expires_at > NOW()
findSessionByRefreshToken(ss, refreshToken, t) ==
    {s \in ss : s.refresh_token = refreshToken /\ s.expires_at > t}

\* a mutant of deleteSession: the comparison is inverted
deleteSessionOfOthers(ss, refreshToken) == {s \in ss : s.refresh_token = refreshToken}

\* DELETE FROM user_sessions WHERE refresh_token = $1
deleteSession(ss, refreshToken) == {s \in ss : s.refresh_token # refreshToken}

\* a mutant of deleteAllUserSessions: the WHERE clause is missing
deleteAllUserSessionsEveryone(ss, userId) == {}

\* a mutant of deleteAllUserSessions: the comparison is inverted
deleteAllUserSessionsOfOthers(ss, userId) == {s \in ss : s.user_id = userId}

\* DELETE FROM user_sessions WHERE user_id = $1
deleteAllUserSessions(ss, userId) == {s \in ss : s.user_id # userId}

\* result.rowCount of a DELETE that turned table a into table b
Deleted(a, b) == Cardinality(a) - Cardinality(b)

----------------------------------------------------------------------------
(* Initial state: the schema and sample rows of init.sql, idle handlers *)

NoRet == [op |-> "none"]
NoLoc == [op |-> "none"]

Init ==
    /\ users = SeedUsers
    /\ sessions = {}
    /\ now = 0
    /\ ticks = 0
    /\ uuids = 0
    /\ nextSid = 0
    /\ pc = [p \in Procs |-> "idle"]
    /\ loc = [p \in Procs |-> NoLoc]
    /\ ret = [p \in Procs |-> NoRet]
    /\ hist = [vIssued |-> {},      \* <<user id, verification token>> of every inserted user
               vTrue |-> <<>>,      \* the tokens verifyEmail returned true for, in order
               created |-> {},      \* every session row ever inserted
               tIssued |-> <<>>,    \* what each setResetToken stored, in order
               rotated |-> {},      \* <<old, new>> refresh token of every finished refresh
               resetDone |-> {},    \* reset tokens a finished resetPassword consumed
               resetMark |-> {}]    \* <<user id, nextSid>> when a password reset finished
    /\ redisClient = NULL
    /\ clients = <<>>

\* the refresh tokens handed to clients so far
IssuedRefreshTokens == {s.refresh_token : s \in hist.created}

\* The handlers of the store and of the tokens do not touch the Redis client.
Begin(p, label, locals) ==
    /\ pc[p] = "idle"
    /\ pc' = [pc EXCEPT ![p] = label]
    /\ loc' = [loc EXCEPT ![p] = locals]
    /\ ret' = [ret EXCEPT ![p] = NoRet]
    /\ UNCHANGED <<redisClient, clients>>

Goto(p, label) ==
    /\ pc' = [pc EXCEPT ![p] = label]
    /\ UNCHANGED <<loc, ret, redisClient, clients>>

Finish(p, result) ==
    /\ pc' = [pc EXCEPT ![p] = "idle"]
    /\ loc' = [loc EXCEPT ![p] = NoLoc]
    /\ ret' = [ret EXCEPT ![p] = result]
    /\ UNCHANGED <<redisClient, clients>>

\* an operation that returns from its first statement
Return(p, result) ==
    /\ pc[p] = "idle"
    /\ UNCHANGED <<pc, loc, redisClient, clients>>
    /\ ret' = [ret EXCEPT ![p] = result]

\* The answer of a workflow goes to its client; the model keeps no copy of it.
Respond(p) == Finish(p, NoRet)
Answer(p) == Return(p, NoRet)

----------------------------------------------------------------------------
(* UserModel.create *)

\* bcrypt.hash and uuidv4(), up to the await of the INSERT
CreateCall(p, email, username, password) ==
    /\ uuids < MaxUuids
    /\ Cardinality(users) < MaxUsers
    /\ Begin(p, "create_insert",
             [op |-> "create", email |-> email, username |-> username,
              hashedPassword |-> Hash(password), verificationToken |-> uuidv4(uuids)])
    /\ uuids' = uuids + 1
    /\ UNCHANGED <<users, sessions, now, ticks, nextSid, hist>>

\* db.query(INSERT ...): the unique constraints reject the row, or it is stored;
\* raced: another create of the same email or username was in flight at the INSERT
CreateInsert(p) ==
    /\ pc[p] = "create_insert"
    /\ LET l == loc[p]
           us == InsertUser(users, l.email, l.username, l.hashedPassword,
                            l.verificationToken)
           row == CHOOSE u \in us : u \notin users
           raced == \E q \in Procs \ {p} :
                       /\ pc[q] = "create_insert"
                       /\ loc[q].email = l.email \/ loc[q].username = l.username
       IN IF UniqueViolation(users, l.email, l.username)
             THEN /\ Finish(p, [op |-> "create", ok |-> FALSE, email |-> l.email,
                                username |-> l.username, raced |-> raced])
                  /\ UNCHANGED <<users, hist>>
             ELSE /\ users' = us
                  /\ hist' = [hist EXCEPT !.vIssued = @ \cup {<<row.id, l.verificationToken>>}]
                  /\ Finish(p, [op |-> "create", ok |-> TRUE, row |-> Returning(row),
                                raced |-> raced])
    /\ UNCHANGED <<sessions, now, ticks, uuids, nextSid>>

----------------------------------------------------------------------------
(* UserModel.verifyEmail *)

VerifyEmailCall(p, token) ==
    /\ Begin(p, "verify_update", [op |-> "verifyEmail", token |-> token])
    /\ UNCHANGED <<users, sessions, now, ticks, uuids, nextSid, hist>>

\* db.query(UPDATE ...) and the rowCount test; overlap: another call with the same
\* token was in flight when the statement ran
VerifyEmailUpdate(p) ==
    /\ pc[p] = "verify_update"
    /\ LET token == loc[p].token
           ok == Cardinality(findByVerificationToken(users, token)) > 0
       IN /\ users' = verifyEmail(users, token)
          /\ hist' = [hist EXCEPT !.vTrue = IF ok THEN Append(@, token) ELSE @]
          /\ Finish(p, [op |-> "verifyEmail", token |-> token, ok |-> ok,
                        overlap |-> \E q \in Procs \ {p} :
                                       /\ pc[q] = "verify_update"
                                       /\ loc[q].token = token])
    /\ UNCHANGED <<sessions, now, ticks, uuids, nextSid>>

----------------------------------------------------------------------------
(* Bounds on operations in flight: a started operation can always finish *)

PendingUuids == Cardinality({q \in Procs : pc[q] \in {"login_session", "refresh_delete",
                                                       "refresh_create"}})
CanStartSession == uuids + PendingUuids < MaxUuids

----------------------------------------------------------------------------
(* requestPasswordReset: findByEmail, a random token with a one-hour expiry,       *)
(* setResetToken; the answer is the same whether or not the address is known       *)

RequestResetCall(p, email) ==
    /\ uuids < MaxUuids
    /\ IF findByEmail(users, email) = {}
          THEN /\ Answer(p)
               /\ UNCHANGED uuids
          ELSE /\ Begin(p, "reset_token_set",
                        [op |-> "requestPasswordReset", email |-> email,
                         token |-> uuidv4(uuids), expiresAt |-> now + ResetTokenHours])
               /\ uuids' = uuids + 1
    /\ UNCHANGED <<users, sessions, now, ticks, nextSid, hist>>

RequestResetSet(p) ==
    /\ pc[p] = "reset_token_set"
    /\ LET l == loc[p]
       IN /\ users' = setResetToken(users, l.email, l.token, l.expiresAt)
          /\ hist' = [hist EXCEPT !.tIssued =
                         Append(@, [email |-> l.email, token |-> l.token,
                                    expiresAt |-> l.expiresAt])]
    /\ Respond(p)
    /\ UNCHANGED <<sessions, now, ticks, uuids, nextSid>>

----------------------------------------------------------------------------
(* resetPassword: findByResetToken, updatePassword, clearResetToken,               *)
(* deleteAllUserSessions                                                           *)

ResetCall(p, token, newPassword) ==
    /\ LET rows == findByResetToken(users, token, now)  \* rows[0] || null
       IN IF rows = {}
             THEN Answer(p)
             ELSE \E u \in rows :
                     Begin(p, "reset_update",
                           [op |-> "resetPassword", token |-> token, userId |-> u.id,
                            hashedPassword |-> Hash(newPassword)])
    /\ UNCHANGED <<users, sessions, now, ticks, uuids, nextSid, hist>>

ResetUpdate(p) ==
    /\ pc[p] = "reset_update"
    /\ users' = updatePassword(users, loc[p].userId, loc[p].hashedPassword)
    /\ Goto(p, "reset_clear")
    /\ UNCHANGED <<sessions, now, ticks, uuids, nextSid, hist>>

ResetClear(p) ==
    /\ pc[p] = "reset_clear"
    /\ users' = clearResetToken(users, loc[p].userId)
    /\ Goto(p, "reset_sessions")
    /\ UNCHANGED <<sessions, now, ticks, uuids, nextSid, hist>>

ResetSessions(p) ==
    /\ pc[p] = "reset_sessions"
    /\ sessions' = deleteAllUserSessions(sessions, loc[p].userId)
    /\ hist' = [hist EXCEPT !.resetMark =
                   {m \in @ : m[1] # loc[p].userId} \cup {<<loc[p].userId, nextSid>>},
                            !.resetDone = @ \cup {loc[p].token}]
    /\ Respond(p)
    /\ UNCHANGED <<users, now, ticks, uuids, nextSid>>

----------------------------------------------------------------------------
(* login: findByEmail, validatePassword, generateTokenPair, createSession *)

LoginCall(p, email, password) ==
    /\ CanStartSession
    /\ LET rows == findByEmail(users, email)  \* rows[0] || null
       IN IF rows = {}
             THEN Answer(p)
             ELSE \E u \in rows :
                     IF validatePassword(password, u.password_hash)
                        THEN Begin(p, "login_session", [op |-> "login", userId |-> u.id])
                        ELSE Answer(p)
    /\ UNCHANGED <<users, sessions, now, ticks, uuids, nextSid, hist>>

LoginSession(p) ==
    /\ pc[p] = "login_session"
    /\ LET token == generateRefreshToken(uuidv4(uuids), now)
       IN /\ sessions' = createSession(sessions, nextSid + 1, loc[p].userId, token, now)
          /\ hist' = [hist EXCEPT !.created = @ \cup (sessions' \ sessions)]
          /\ Respond(p)
    /\ uuids' = uuids + 1
    /\ nextSid' = nextSid + 1
    /\ UNCHANGED <<users, now, ticks>>

----------------------------------------------------------------------------
(* refresh: verifyRefreshToken, findSessionByRefreshToken, a new token pair,       *)
(* deleteSession of the old token, createSession of the new one                    *)

RefreshCall(p, refreshToken) ==
    /\ CanStartSession
    /\ LET rows == findSessionByRefreshToken(sessions, refreshToken, now)  \* rows[0] || null
       IN IF rows = {} \/ ~verifyRefreshToken(refreshToken, now)
             THEN Answer(p)
             ELSE \E s \in rows :
                     Begin(p, "refresh_delete",
                           [op |-> "refresh", old |-> refreshToken, userId |-> s.user_id])
    /\ UNCHANGED <<users, sessions, now, ticks, uuids, nextSid, hist>>

RefreshDelete(p) ==
    /\ pc[p] = "refresh_delete"
    /\ sessions' = deleteSession(sessions, loc[p].old)
    /\ Goto(p, "refresh_create")
    /\ UNCHANGED <<users, now, ticks, uuids, nextSid, hist>>

RefreshCreate(p) ==
    /\ pc[p] = "refresh_create"
    /\ LET token == generateRefreshToken(uuidv4(uuids), now)
       IN /\ sessions' = createSession(sessions, nextSid + 1, loc[p].userId, token, now)
          /\ hist' = [hist EXCEPT !.created = @ \cup (sessions' \ sessions),
                                  !.rotated = @ \cup {<<loc[p].old, token>>}]
          /\ Respond(p)
    /\ uuids' = uuids + 1
    /\ nextSid' = nextSid + 1
    /\ UNCHANGED <<users, now, ticks>>

----------------------------------------------------------------------------
(* logout and logoutAllDevices: one DELETE each *)

Logout(p, refreshToken) ==
    /\ sessions' = deleteSession(sessions, refreshToken)
    /\ Answer(p)
    /\ UNCHANGED <<users, now, ticks, uuids, nextSid, hist>>

LogoutAllDevices(p, userId) ==
    /\ sessions' = deleteAllUserSessions(sessions, userId)
    /\ Answer(p)
    /\ UNCHANGED <<users, now, ticks, uuids, nextSid, hist>>

----------------------------------------------------------------------------
(* The clock *)

Tick(d) ==
    /\ ticks < MaxTicks
    /\ now' = now + d
    /\ ticks' = ticks + 1
    /\ UNCHANGED <<users, sessions, uuids, nextSid, pc, loc, ret, hist, redisClient, clients>>

ClockSteps == {ResetTokenHours, SessionDays * 24}

----------------------------------------------------------------------------

Next ==
    \/ \E p \in Procs, email \in Emails, username \in Usernames :
          CreateCall(p, email, username, NewPassword)
    \/ \E p \in Procs : CreateInsert(p)
    \/ \E p \in Procs, token \in 1..uuids : VerifyEmailCall(p, token)
    \/ \E p \in Procs : VerifyEmailUpdate(p)

Spec == Init /\ [][Next]_vars

----------------------------------------------------------------------------
(* The session and password-reset workflows over the sample accounts *)

UserIds == {u.id : u \in users}

NextSession ==
    \/ \E p \in Procs, email \in ResetEmails : RequestResetCall(p, email)
    \/ \E p \in Procs : RequestResetSet(p)
    \/ \E p \in Procs, token \in 1..uuids : ResetCall(p, token, NewPassword)
    \/ \E p \in Procs : ResetUpdate(p)
    \/ \E p \in Procs : ResetClear(p)
    \/ \E p \in Procs : ResetSessions(p)
    \/ \E p \in Procs, email \in LoginEmails, password \in Passwords :
          LoginCall(p, email, password)
    \/ \E p \in Procs : LoginSession(p)
    \/ \E p \in Procs, token \in IssuedRefreshTokens : RefreshCall(p, token)
    \/ \E p \in Procs : RefreshDelete(p)
    \/ \E p \in Procs : RefreshCreate(p)
    \/ \E p \in Procs, token \in IssuedRefreshTokens : Logout(p, token)
    \/ \E p \in Procs, userId \in UserIds : LogoutAllDevices(p, userId)
    \/ \E d \in ClockSteps : Tick(d)

SessionSpec == Init /\ [][NextSession]_vars

----------------------------------------------------------------------------
(* The session statements of UserModel called directly, with any token value:      *)
(* createSession stores whatever string its caller passes.  Each is one statement, *)
(* and ret keeps what it returned.                                                 *)

MaxSessionRows == 2

\* two token values a caller may pass, as a refresh token signed at time 0
StoreTokens == {generateRefreshToken(1, 0), generateRefreshToken(2, 0)}

CreateSession(p, userId, refreshToken) ==
    /\ nextSid < MaxSessionRows
    /\ sessions' = createSession(sessions, nextSid + 1, userId, refreshToken, now)
    /\ nextSid' = nextSid + 1
    /\ hist' = [hist EXCEPT !.created = @ \cup (sessions' \ sessions)]
    /\ Return(p, [op |-> "createSession", ok |-> TRUE,
                  present |-> \E s \in sessions : s.refresh_token = refreshToken])
    /\ UNCHANGED <<users, now, ticks, uuids>>

DeleteSession(p, refreshToken) ==
    /\ sessions' = deleteSession(sessions, refreshToken)
    /\ Return(p, [op |-> "deleteSession", refreshToken |-> refreshToken,
                  ok |-> Deleted(sessions, sessions') > 0])
    /\ UNCHANGED <<users, now, ticks, uuids, nextSid, hist>>

DeleteAllUserSessions(p, userId) ==
    /\ sessions' = deleteAllUserSessions(sessions, userId)
    /\ Return(p, [op |-> "deleteAllUserSessions", userId |-> userId,
                  ok |-> Deleted(sessions, sessions') > 0])
    /\ UNCHANGED <<users, now, ticks, uuids, nextSid, hist>>

NextStore ==
    \/ \E p \in Procs, userId \in UserIds, token \in StoreTokens :
          CreateSession(p, userId, token)
    \/ \E p \in Procs, token \in StoreTokens : DeleteSession(p, token)
    \/ \E p \in Procs, userId \in UserIds : DeleteAllUserSessions(p, userId)
    \/ \E d \in ClockSteps : Tick(d)

StoreSpec == Init /\ [][NextStore]_vars

----------------------------------------------------------------------------
(* Properties of registration and email verification, checked under Spec *)

Range(f) == {f[i] : i \in DOMAIN f}

\* C1: verifyEmail(t) returns true at most once for every token t: the call that
\* finds a user holding t sets is_verified and clears the token, so once it has
\* returned true no row holds t, a later call matches no row and changes no user;
\* a registered user is unverified and holds its token until that call.
VerifyEmailAtMostOnce ==
    /\ \A i, j \in DOMAIN hist.vTrue : i # j => hist.vTrue[i] # hist.vTrue[j]
    /\ \A t \in Range(hist.vTrue) :
          /\ findByVerificationToken(users, t) = {}
          /\ verifyEmail(users, t) = users
    /\ \A v \in hist.vIssued : \E u \in users :
          /\ u.id = v[1]
          /\ IF v[2] \in Range(hist.vTrue)
                THEN u.is_verified /\ u.verification_token = NULL
                ELSE ~u.is_verified /\ u.verification_token = v[2]

\* C1 witness: a verifyEmail call has returned false for a token that an earlier
\* call returned true for
VerifyEmailSecondCallFalse ==
    \E p \in Procs :
        /\ ret[p].op = "verifyEmail"
        /\ ~ret[p].ok
        /\ ret[p].token \in Range(hist.vTrue)

\* C4: of two verifyEmail calls with the same token that were in flight together,
\* at most one returns true.
ConcurrentVerifyEmailOnce ==
    \A p, q \in Procs :
        (/\ p # q
         /\ ret[p].op = "verifyEmail"
         /\ ret[q].op = "verifyEmail"
         /\ ret[p].token = ret[q].token
         /\ ret[p].overlap)
        => ~(ret[p].ok /\ ret[q].ok)

\* C4 witness: two calls with the same token overlapped; the first to run returned
\* true, the other false
ConcurrentVerifyEmailRaced ==
    \E p, q \in Procs :
        /\ p # q
        /\ ret[p].op = "verifyEmail"
        /\ ret[q].op = "verifyEmail"
        /\ ret[p].token = ret[q].token
        /\ ret[p].overlap
        /\ ret[p].ok
        /\ ~ret[q].ok

\* C8: the user create returns has is_verified = false and carries a non-empty
\* verification token that no other inserted user was issued.
CreateReturnsFreshToken ==
    \A p \in Procs :
        (ret[p].op = "create" /\ ret[p].ok) =>
            /\ ret[p].row.is_verified = FALSE
            /\ Field(ret[p].row, "verification_token") # NULL
            /\ \A v \in hist.vIssued :
                  v[1] # ret[p].row.id => v[2] # Field(ret[p].row, "verification_token")

UniqueUsers ==
    \A u, v \in users : (u.email = v.email \/ u.username = v.username) => u = v

\* C9: no two users share an email or a username; an INSERT of create whose email
\* or username an existing row has fails and leaves the users unchanged, and any
\* other INSERT succeeds, also when two creates are in flight together.
EmailAndUsernameUnique ==
    [][/\ UniqueUsers /\ UniqueUsers'
       /\ \A p \in Procs :
             (pc[p] = "create_insert" /\ pc'[p] = "idle") =>
                IF \E u \in users : \/ u.email = loc[p].email
                                    \/ u.username = loc[p].username
                   THEN ~ret'[p].ok /\ users' = users
                   ELSE ret'[p].ok /\ Cardinality(users') = Cardinality(users) + 1]_vars

\* C9 witness: two creates of the same email or username raced; one was stored and
\* the other failed
CreateRaceLost ==
    \E p, q \in Procs :
        /\ p # q
        /\ ret[p].op = "create" /\ ret[p].ok /\ ret[p].raced
        /\ ret[q].op = "create" /\ ~ret[q].ok
        /\ ret[q].email = ret[p].row.email \/ ret[q].username = ret[p].row.username

----------------------------------------------------------------------------
(* Properties of sessions and password resets, checked under SessionSpec *)

\* C2: once a resetPassword of user u has finished, the non-expired lookup returns
\* nothing for the refresh token of any session of u inserted before it finished.
ResetInvalidatesPriorSessions ==
    \A m \in hist.resetMark : \A s \in hist.created :
        (s.user_id = m[1] /\ s.id <= m[2]) =>
            findSessionByRefreshToken(sessions, s.refresh_token, now) = {}

\* C2 witness: a reset of u has finished, and a session of u inserted before it,
\* which has not expired, is gone
ResetDroppedLiveSession ==
    \E m \in hist.resetMark : \E s \in hist.created :
        /\ s.user_id = m[1]
        /\ s.id <= m[2]
        /\ now < s.expires_at
        /\ s \notin sessions

\* C3: once a refresh has exchanged a refresh token, the lookup returns nothing for
\* that token in every later state, so every refresh started later with it fails;
\* the token the refresh issued is a different one, and when the refresh finishes it
\* is verified and has a session the lookup returns.
RefreshTokenSingleUse ==
    [][/\ \A r \in hist'.rotated :
             findSessionByRefreshToken(sessions', r[1], now') = {}
       /\ \A p \in Procs :
             (pc[p] = "refresh_create" /\ pc'[p] = "idle") =>
                \E r \in hist'.rotated :
                    /\ r[1] = loc[p].old
                    /\ r[2] # r[1]
                    /\ verifyRefreshToken(r[2], now')
                    /\ findSessionByRefreshToken(sessions', r[2], now') # {}]_vars

\* C3 witness: a refresh has finished; its old token finds no session, its new
\* token finds one
RefreshRotated ==
    \E r \in hist.rotated :
        /\ findSessionByRefreshToken(sessions, r[1], now) = {}
        /\ findSessionByRefreshToken(sessions, r[2], now) # {}

\* C5: once a resetPassword with token t has finished, no user holds t and
\* findByResetToken(t) finds no user, so a second reset with t fails; the user's
\* digest is the one made from the new password.
ResetTokenSingleUse ==
    /\ \A t \in hist.resetDone :
          /\ findByResetToken(users, t, now) = {}
          /\ \A u \in users : u.reset_token # t
    /\ \A m \in hist.resetMark : \A u \in users :
          u.id = m[1] => u.password_hash = Hash(NewPassword)

\* C5 witness: a reset with t has finished before t's expiry; the user's reset
\* token and expiry are cleared
ResetTokenConsumed ==
    \E i \in DOMAIN hist.tIssued : \E u \in users :
        /\ hist.tIssued[i].token \in hist.resetDone
        /\ now < hist.tIssued[i].expiresAt
        /\ u.email = hist.tIssued[i].email
        /\ u.reset_token = NULL
        /\ u.reset_token_expires = NULL

\* C6: a session row is returned by the lookup of its refresh token exactly while
\* it is stored and now is before its creation time plus seven days; the clock does
\* not go back, no statement changes a stored row, and once the expiry of a row has
\* been reached the lookup of its refresh token returns nothing in any later state.
SessionValidUntilExpiry ==
    [][/\ \A s \in hist'.created :
             s \in findSessionByRefreshToken(sessions', s.refresh_token, now')
                <=> (s \in sessions' /\ now' < s.created_at + SessionDays * 24)
       /\ now' >= now
       /\ \A s \in sessions : \A x \in sessions' : x.id = s.id => x = s
       /\ \A s \in hist.created :
             now >= s.expires_at =>
                findSessionByRefreshToken(sessions', s.refresh_token, now') = {}]_vars

\* C6 witness: a stored session whose expiry the clock has reached
SessionExpired ==
    \E s \in sessions :
        /\ now >= s.expires_at
        /\ findSessionByRefreshToken(sessions, s.refresh_token, now) = {}

\* C7: findByResetToken(t) returns a user only if t is the token the latest
\* setResetToken for that user's email stored and now is before the expiry stored
\* with it.
ResetTokenFindsCurrentOnly ==
    \A t \in 1..uuids : \A u \in findByResetToken(users, t, now) :
        \E i \in DOMAIN hist.tIssued :
            /\ hist.tIssued[i].token = t
            /\ hist.tIssued[i].email = u.email
            /\ now < hist.tIssued[i].expiresAt
            /\ \A j \in DOMAIN hist.tIssued : j > i => hist.tIssued[j].email # u.email

\* C7 witness: a second token was issued for the same email before the first
\* expired; the first no longer finds the user, the second does
ResetTokenSuperseded ==
    \E i, j \in DOMAIN hist.tIssued :
        /\ i < j
        /\ hist.tIssued[i].email = hist.tIssued[j].email
        /\ now < hist.tIssued[i].expiresAt
        /\ findByResetToken(users, hist.tIssued[i].token, now) = {}
        /\ findByResetToken(users, hist.tIssued[j].token, now) # {}

----------------------------------------------------------------------------
(* Property of the user_sessions table, checked under StoreSpec *)

\* C10: no two session rows hold the same refresh_token, and a createSession of
\* a refresh token that a stored row already holds is rejected.
RefreshTokenUnique ==
    /\ \A s, x \in sessions : s.refresh_token = x.refresh_token => s = x
    /\ \A p \in Procs :
          (ret[p].op = "createSession" /\ ret[p].present) => ~ret[p].ok

\* C11: a deleteSession(t) returns true exactly if a stored row held refresh token
\* t, and afterwards no row holds t; the same call repeated at once deletes no row
\* and returns false; the rows holding other refresh tokens are the same before and
\* after; and a row that has been deleted is never returned by the lookup again.
DeleteSessionIdempotent ==
    [][/\ \A p \in Procs, t \in StoreTokens :
             DeleteSession(p, t) =>
                /\ ret'[p].ok <=> (\E s \in sessions : s.refresh_token = t)
                /\ \A s \in sessions' : s.refresh_token # t
                /\ deleteSession(sessions', t) = sessions'
                /\ ~(Deleted(sessions', deleteSession(sessions', t)) > 0)
                /\ \A s \in sessions : s.refresh_token # t => s \in sessions'
                /\ sessions' \subseteq sessions
       /\ \A s \in hist.created :
             s \notin sessions =>
                s \notin findSessionByRefreshToken(sessions', s.refresh_token, now')]_vars

\* C11 witness: one handler's deleteSession(t) returned true, the other's repeat of
\* it returned false, and a row holding another refresh token is still stored
DeleteSessionRepeated ==
    \E p, q \in Procs :
        /\ p # q
        /\ ret[p].op = "deleteSession" /\ ret[p].ok
        /\ ret[q].op = "deleteSession" /\ ~ret[q].ok
        /\ ret[q].refreshToken = ret[p].refreshToken
        /\ \A s \in sessions : s.refresh_token # ret[p].refreshToken
        /\ \E s \in hist.created : s.refresh_token = ret[p].refreshToken
        /\ sessions # {}

----------------------------------------------------------------------------
(* Sessions opened by login, each with a freshly signed refresh token, and *)
(* deleteAllUserSessions called on them; ret keeps what it returned.        *)

NextLogoutAll ==
    \/ \E p \in Procs, email \in LoginEmails, password \in Passwords :
          LoginCall(p, email, password)
    \/ \E p \in Procs : LoginSession(p)
    \/ \E p \in Procs, userId \in UserIds : DeleteAllUserSessions(p, userId)
    \/ \E d \in ClockSteps : Tick(d)

LogoutAllSpec == Init /\ [][NextLogoutAll]_vars

\* C12: after deleteAllUserSessions(u) the lookup returns nothing for the refresh
\* token of any session that belonged to u, now and in every later state, and the
\* rows of every other user are the same before and after.
LogoutAllDevicesDeletesOnlyUser ==
    [][/\ \A p \in Procs, u \in UserIds :
             DeleteAllUserSessions(p, u) =>
                /\ \A s \in hist.created :
                      s.user_id = u =>
                         findSessionByRefreshToken(sessions', s.refresh_token, now') = {}
                /\ \A s \in sessions' : s.user_id # u
                /\ {s \in sessions : s.user_id # u} = sessions'
       /\ \A s \in hist.created :
             s \notin sessions =>
                findSessionByRefreshToken(sessions', s.refresh_token, now') = {}]_vars

\* C12 witness: deleteAllUserSessions(u) returned true, a session of u that has not
\* expired is gone, and a session of another user is still found
LogoutAllDevicesKeptOthers ==
    \E p \in Procs : \E s \in hist.created : \E x \in sessions :
        /\ ret[p].op = "deleteAllUserSessions" /\ ret[p].ok
        /\ s.user_id = ret[p].userId
        /\ now < s.expires_at
        /\ s \notin sessions
        /\ x.user_id # ret[p].userId
        /\ x.id < s.id
        /\ x \in findSessionByRefreshToken(sessions, x.refresh_token, now)

----------------------------------------------------------------------------
(* JWTUtils.getTokenExpiration and JWTUtils.isTokenExpired                  *)
(*                                                                          *)
(* A token string is either a serialised JWT, whose claims jwt.decode       *)
(* returns without verifying anything, or not one.  A claim is a JSON value:*)
(* <<"number", n>> or <<"string", s>>; a claim the payload lacks reads as   *)
(* undefined.  A Date holds a time value, <<"number", ms>> or <<"NaN">>.    *)

MsPerSecond == 1000

Undefined == <<"undefined">>
NaN == <<"NaN">>
Num(n) == <<"number", n>>
Str(s) == <<"string", s>>

\* the serialised form of a token that generateRefreshToken signed
Jwt(token) == [form |-> "jwt", claims |-> [tokenId |-> Num(token.tokenId), exp |-> Num(token.exp)]]

\* jwt.decode(token): the payload; null for a string that is no JWT; a string
\* whose payload is not JSON makes it throw, which the caller catches
decode(token) == IF token.form = "jwt" THEN {token.claims} ELSE {}

\* decoded.exp
Claim(decoded, name) == IF name \in DOMAIN decoded THEN decoded[name] ELSE Undefined

\* the condition of an if: undefined, 0 and "" are false
Truthy(v) ==
    CASE v[1] = "undefined" -> FALSE
      [] v[1] = "number" -> v[2] # 0
      [] v[1] = "string" -> v[2] # ""
      [] OTHER -> TRUE

\* v * 1000: a number is multiplied, text that spells no number gives NaN
TimesMs(v) == IF v[1] = "number" THEN Num(v[2] * MsPerSecond) ELSE NaN

\* a <= b on time values: false when either is NaN
LessOrEqual(a, b) == a[1] = "number" /\ b[1] = "number" /\ a[2] <= b[2]

\* Date.now() when the clock shows t
DateNow(t) == Num(t * MsPerSecond)

\* the Date getTokenExpiration returns, as a set: empty for null
getTokenExpiration(token) ==
    {TimesMs(Claim(decoded, "exp")) : decoded \in {d \in decode(token) : Truthy(Claim(d, "exp"))}}

\* if (!expiration) return true; return expiration.getTime() <= Date.now()
isTokenExpired(token, t) ==
    LET expiration == getTokenExpiration(token)
    IN  IF expiration = {} THEN TRUE
        ELSE \E e \in expiration : LessOrEqual(e, DateNow(t))

\* token strings a caller may pass: no JWT, unparsable payload, a payload without
\* exp, exp = 0, exp at the first clock step, a token signed at time 0, and a
\* payload whose exp is text
ExpiryTokens ==
    {[form |-> "garbage"], [form |-> "throws"],
     [form |-> "jwt", claims |-> [tokenId |-> Num(1)]],
     [form |-> "jwt", claims |-> [tokenId |-> Num(1), exp |-> Num(0)]],
     [form |-> "jwt", claims |-> [tokenId |-> Num(1), exp |-> Num(ResetTokenHours)]],
     Jwt(generateRefreshToken(1, 0)),
     [form |-> "jwt", claims |-> [tokenId |-> Num(1), exp |-> Str("never")]]}

IsTokenExpired(p, token) ==
    /\ Return(p, [op |-> "isTokenExpired", token |-> token, at |-> now,
                  result |-> isTokenExpired(token, now)])
    /\ UNCHANGED <<users, sessions, now, ticks, uuids, nextSid, hist>>

NextExpiry ==
    \/ \E p \in Procs, token \in ExpiryTokens : IsTokenExpired(p, token)
    \/ \E d \in ClockSteps : Tick(d)

ExpirySpec == Init /\ [][NextExpiry]_vars

\* the token is no JWT, or its payload has no exp claim that is a number
ExpirationUnknown(token) ==
    \/ token.form # "jwt"
    \/ Claim(token.claims, "exp")[1] # "number"

\* C13: isTokenExpired returns a boolean for every token; it returns true when the
\* token's expiration is unknown (no JWT, or no exp claim) or not after the current
\* time, and false only when the decoded exp is a time strictly after the current
\* time.
IsExpiredUnlessStrictlyLater ==
    \A p \in Procs :
        ret[p].op = "isTokenExpired" =>
            /\ ret[p].result \in BOOLEAN
            /\ ret[p].result <=>
                  \/ ExpirationUnknown(ret[p].token)
                  \/ ret[p].token.claims.exp[2] <= ret[p].at

----------------------------------------------------------------------------
(* config/database.ts: the lazily created Redis client                      *)
(*                                                                          *)
(* The callers run on one event loop: the code from the start of            *)
(* initializeRedis up to its await is one step, and the code after the      *)
(* await is another.  connect() either resolves or rejects.  A client is    *)
(* "connecting", "ready", "failed" or, after quit(), "closed".              *)

\* what a caller is handed: the client, and the state the client is in by then
Handed(op, client) ==
    [op |-> op, ok |-> TRUE, client |-> client, state |-> clients[client]]

\* if (!redisClient) { redisClient = createClient(...); ...; await redisClient.connect() }
\* else return redisClient
InitializeRedisCall(p) ==
    /\ pc[p] = "idle"
    /\ IF redisClient = NULL
          THEN /\ clients' = Append(clients, "connecting")
               /\ redisClient' = Len(clients) + 1
               /\ pc' = [pc EXCEPT ![p] = "redis_connect"]
               /\ loc' = [loc EXCEPT ![p] = [op |-> "initializeRedis"]]
               /\ ret' = [ret EXCEPT ![p] = NoRet]
          ELSE /\ ret' = [ret EXCEPT ![p] = Handed("initializeRedis", redisClient)]
               /\ UNCHANGED <<redisClient, clients, pc, loc>>
    /\ UNCHANGED <<users, sessions, now, ticks, uuids, nextSid, hist>>

\* connect() resolves: the caller that awaited it returns redisClient
InitializeRedisConnected(p) ==
    /\ pc[p] = "redis_connect"
    /\ clients' = [clients EXCEPT ![redisClient] = "ready"]
    /\ pc' = [pc EXCEPT ![p] = "idle"]
    /\ loc' = [loc EXCEPT ![p] = NoLoc]
    /\ ret' = [ret EXCEPT ![p] = [op |-> "initializeRedis", ok |-> TRUE,
                                  client |-> redisClient, state |-> "ready"]]
    /\ UNCHANGED <<users, sessions, now, ticks, uuids, nextSid, hist, redisClient>>

\* connect() rejects: the caller that awaited it throws; redisClient stays set
InitializeRedisFailed(p) ==
    /\ pc[p] = "redis_connect"
    /\ clients' = [clients EXCEPT ![redisClient] = "failed"]
    /\ pc' = [pc EXCEPT ![p] = "idle"]
    /\ loc' = [loc EXCEPT ![p] = NoLoc]
    /\ ret' = [ret EXCEPT ![p] = [op |-> "initializeRedis", ok |-> FALSE]]
    /\ UNCHANGED <<users, sessions, now, ticks, uuids, nextSid, hist, redisClient>>

\* if (!redisClient) throw new Error(...); return redisClient
GetRedisClient(p) ==
    /\ pc[p] = "idle"
    /\ ret' = [ret EXCEPT ![p] =
                  IF redisClient = NULL
                     THEN [op |-> "getRedisClient", ok |-> FALSE]
                     ELSE Handed("getRedisClient", redisClient)]
    /\ UNCHANGED <<users, sessions, now, ticks, uuids, nextSid, hist,
                   redisClient, clients, pc, loc>>

\* closeDatabaseConnections: if (redisClient) await redisClient.quit(), errors
\* caught and logged.  quit() closes a ready client and is an error on one that
\* failed or is closed already; a shutdown while connect() is pending is left out.
CloseDatabaseConnections(p) ==
    /\ pc[p] = "idle"
    /\ redisClient # NULL => clients[redisClient] # "connecting"
    /\ clients' = IF redisClient # NULL /\ clients[redisClient] = "ready"
                     THEN [clients EXCEPT ![redisClient] = "closed"]
                     ELSE clients
    /\ ret' = [ret EXCEPT ![p] = [op |-> "closeDatabaseConnections"]]
    /\ UNCHANGED <<users, sessions, now, ticks, uuids, nextSid, hist, redisClient, pc, loc>>

NextRedis ==
    \/ \E p \in Procs : InitializeRedisCall(p)
    \/ \E p \in Procs : InitializeRedisConnected(p)
    \/ \E p \in Procs : InitializeRedisFailed(p)
    \/ \E p \in Procs : GetRedisClient(p)
    \/ \E p \in Procs : CloseDatabaseConnections(p)

RedisSpec == Init /\ [][NextRedis]_vars

\* C14: at most one Redis client is ever created, and every client that
\* initializeRedis or getRedisClient hands to a caller has completed connect
\* successfully by then: it is not one whose connect is still pending or has
\* failed.
RedisClientSingleAndConnected ==
    /\ Len(clients) <= 1
    /\ \A p \in Procs :
          (ret[p].op \in {"initializeRedis", "getRedisClient"} /\ ret[p].ok) =>
              ret[p].state \in {"ready", "closed"}

====
